---------------------------- MODULE Spec2Model ----------------------------
(***************************************************************************)
(* A model of src/cleanpdf.py: the text helpers (normalize,                *)
(* text_overlap_ratio, is_redundant), the page sweep, dry-run report and   *)
(* document assembly of clean_pdf, and the output-path choice of main.     *)
(*                                                                         *)
(* Strings are sequences of one-character strings.  A float threshold and  *)
(* an overlap ratio are exact rationals <<num, den>> with den > 0; with    *)
(* the small numerators and denominators used here two different rationals *)
(* are much further apart than one double-precision rounding step, so the  *)
(* float comparison of the source and the exact comparison agree.          *)
(***************************************************************************)
EXTENDS Integers, Sequences, FiniteSets

\* ------------------------------------------------------------------ bounds

\* Largest number of words on a page of the input.
MaxWords == 2

\* Largest number of pages of the input document.
MaxPages == 3

\* Longest input path (in characters) given on the command line.
MaxPathLen == 4

\* ------------------------------------------------------------- sequences

Range(s) == {s[k] : k \in 1..Len(s)}

SeqsUpTo(S, n) == UNION {[1..m -> S] : m \in 0..n}

RECURSIVE SortedSeq(_)
\* sorted(S) for a finite set of integers: ascending order.
SortedSeq(S) ==
    IF S = {} THEN << >>
    ELSE LET m == CHOOSE x \in S : \A y \in S : x <= y
         IN  <<m>> \o SortedSeq(S \ {m})

\* ---------------------------------------------------------- text helpers

IsSpace(c) == c = " "

\* str.lower() on one character of the model's alphabet.
LowerChar(c) == IF c = "A" THEN "a" ELSE IF c = "B" THEN "b" ELSE c

\* str.lower()
lower(text) == [k \in 1..Len(text) |-> LowerChar(text[k])]

RECURSIVE split_from(_, _, _)
split_from(text, cur, acc) ==
    IF text = << >>
    THEN IF cur = << >> THEN acc ELSE Append(acc, cur)
    ELSE IF IsSpace(Head(text))
         THEN split_from(Tail(text), << >>,
                         IF cur = << >> THEN acc ELSE Append(acc, cur))
         ELSE split_from(Tail(text), Append(cur, Head(text)), acc)

\* str.split() without arguments: the maximal runs of non-blank characters.
split(text) == split_from(text, << >>, << >>)

RECURSIVE join(_)
\* " ".join(words)
join(words) ==
    IF words = << >> THEN << >>
    ELSE IF Len(words) = 1 THEN words[1]
         ELSE words[1] \o <<" ">> \o join(Tail(words))

\* normalize(text): lowercase, whitespace runs collapsed to one blank.
normalize(text) == join(split(lower(text)))

\* A mutant of text_overlap_ratio: a text without words counts as fully
\* contained.
text_overlap_ratio_EmptyIsFull(a, b) ==
    LET set_a == Range(split(a))
        set_b == Range(split(b))
    IN  IF set_a = {} THEN <<1, 1>>
        ELSE <<Cardinality(set_a \cap set_b), Cardinality(set_a)>>

\* text_overlap_ratio(a, b) as the rational <<numerator, denominator>>.
text_overlap_ratio(a, b) ==
    LET set_a == Range(split(a))
        set_b == Range(split(b))
    IN  IF set_a = {} THEN <<0, 1>>
        ELSE <<Cardinality(set_a \cap set_b), Cardinality(set_a)>>

\* x >= y for rationals with positive denominators.
RatGeq(x, y) == x[1] * y[2] >= y[1] * x[2]

\* A mutant of is_redundant: the overlap must exceed the threshold.
is_redundant_Strict(prev_text, curr_text, threshold) ==
    IF Len(curr_text) <= Len(prev_text) THEN FALSE
    ELSE ~RatGeq(threshold, text_overlap_ratio(prev_text, curr_text))

\* A mutant of is_redundant: a successor of the same length passes the guard.
is_redundant_SameLength(prev_text, curr_text, threshold) ==
    IF Len(curr_text) < Len(prev_text) THEN FALSE
    ELSE RatGeq(text_overlap_ratio(prev_text, curr_text), threshold)

\* A mutant of is_redundant: the comparison with the threshold is reversed.
is_redundant_Reversed(prev_text, curr_text, threshold) ==
    IF Len(curr_text) <= Len(prev_text) THEN FALSE
    ELSE RatGeq(threshold, text_overlap_ratio(prev_text, curr_text))

\* is_redundant(prev_text, curr_text, threshold)
is_redundant(prev_text, curr_text, threshold) ==
    IF Len(curr_text) <= Len(prev_text) THEN FALSE
    ELSE RatGeq(text_overlap_ratio(prev_text, curr_text), threshold)

\* ------------------------------------------------------------------ inputs

\* The words a raw page is written with: a one-letter word and a two-letter
\* word, each in a lowercase and a mixed-case spelling.
RawWords == {<<"a">>, <<"A">>, <<"b", "b">>, <<"B", "b">>}

\* The whitespace runs found between, before and after the words of a page.
RawGaps == {<<" ">>, <<" ", " ">>}

RECURSIVE Layout(_, _)
\* The raw text of a page: its words, each followed by the gap, after a
\* leading gap.
Layout(words, gap) ==
    IF words = << >> THEN gap
    ELSE gap \o Head(words) \o Layout(Tail(words), gap)

\* Every raw page text within the bound, and the page without any text.
RawTexts ==
    {<< >>} \cup {Layout(ws, gap) : ws \in SeqsUpTo(RawWords, MaxWords),
                                     gap \in RawGaps}

\* What the extraction of one page can yield: normalize(raw) of a raw text.
PageTexts == {normalize(raw) : raw \in RawTexts}

\* The thresholds tried: negative, zero, inside (0,1), the default 0.9 and
\* above one (1.01).
Thresholds == {<<-1, 2>>, <<0, 1>>, <<1, 2>>, <<9, 10>>, <<101, 100>>}

VARIABLES
    pc,            \* position in clean_pdf
    threshold,     \* argument of clean_pdf
    dry_run,       \* argument of clean_pdf
    verbose,       \* argument of clean_pdf
    doc,           \* the input document handle: [state, npages]
    texts,         \* normalized page texts, page 0 first
    keep_indices,  \* 0-based indices of the pages kept
    i,             \* position of the running loop (0-based)
    new_doc,       \* the output document handle: [state, pages]
    fs,            \* the documents saved to output_path, oldest first
    stdout,        \* the lines printed
    main_pc,       \* position in main
    args,          \* the parsed command line: [input, out]
    output_path,   \* argument of clean_pdf
    stderr         \* the lines printed to standard error

clean_vars == <<pc, threshold, dry_run, verbose, doc, texts, keep_indices, i,
                new_doc, fs, stdout>>

main_vars == <<main_pc, args, output_path, stderr>>

vars == <<clean_vars, main_vars>>

\* The command line of the runs of clean_pdf studied on their own.
DefaultArgs ==
    [input |-> <<"a">>, out |-> [given |-> TRUE, value |-> <<"o">>]]

Init ==
    /\ pc = "open"
    /\ threshold \in Thresholds
    /\ dry_run \in BOOLEAN
    /\ verbose \in BOOLEAN
    /\ doc = [state |-> "none", npages |-> 0]
    /\ texts = << >>
    /\ keep_indices = << >>
    /\ i = 0
    /\ new_doc = [state |-> "none", pages |-> << >>]
    /\ fs = << >>
    /\ stdout = << >>
    /\ main_pc = "cleaning"
    /\ args = DefaultArgs
    /\ output_path = DefaultArgs.out.value
    /\ stderr = << >>

\* Line 61: fitz.open(input_path) returns a document of n pages.  The list
\* comprehension of lines 62-63 then runs once per page; for a document
\* without pages it yields [] at once, line 66 sets keep_indices = [] and
\* the loop of line 69 is reached.
Open ==
    /\ pc = "open"
    /\ \E n \in 0..MaxPages :
        /\ doc' = [state |-> "open", npages |-> n]
        /\ pc' = IF n = 0 THEN "sweep" ELSE "extract"
    /\ texts' = << >>
    /\ keep_indices' = << >>
    /\ i' = 0
    /\ UNCHANGED <<threshold, dry_run, verbose, new_doc, fs, stdout,
                   main_vars>>

\* Line 61: fitz.open raises (a corrupt or encrypted file); nothing was opened.
OpenFails ==
    /\ pc = "open"
    /\ pc' = "raised"
    /\ UNCHANGED <<threshold, dry_run, verbose, doc, texts, keep_indices, i,
                   new_doc, fs, stdout,
                   main_vars>>

\* Lines 62-63, one page: normalize(doc.load_page(i).get_text("text")); the
\* raw text is whatever the file holds.  After the last page line 66 sets
\* keep_indices = [] and the loop of line 69 starts at index 0.
ExtractPage ==
    /\ pc = "extract"
    /\ i < doc.npages
    /\ \E t \in PageTexts : texts' = Append(texts, t)
    /\ i' = IF i + 1 = doc.npages THEN 0 ELSE i + 1
    /\ pc' = IF i + 1 = doc.npages THEN "sweep" ELSE "extract"
    /\ keep_indices' = << >>
    /\ UNCHANGED <<threshold, dry_run, verbose, doc, new_doc, fs, stdout,
                   main_vars>>

\* Lines 62-63: load_page or get_text raises; the exception leaves clean_pdf.
ExtractFails ==
    /\ pc = "extract"
    /\ i < doc.npages
    /\ pc' = "raised"
    /\ UNCHANGED <<threshold, dry_run, verbose, doc, texts, keep_indices, i,
                   new_doc, fs, stdout,
                   main_vars>>

\* A mutant of SweepStep: the last page is judged like the others and dropped.
SweepStep_DropLast ==
    /\ pc = "sweep"
    /\ i < Len(texts)
    /\ IF i = Len(texts) - 1
       THEN UNCHANGED <<keep_indices, stdout>>
       ELSE IF is_redundant(texts[i + 1], texts[i + 2], threshold)
            THEN /\ stdout' = IF verbose
                              THEN Append(stdout, <<"Removing slide", i + 1, i + 2>>)
                              ELSE stdout
                 /\ UNCHANGED keep_indices
            ELSE /\ keep_indices' = Append(keep_indices, i)
                 /\ UNCHANGED stdout
    /\ i' = i + 1
    /\ UNCHANGED <<pc, threshold, dry_run, verbose, doc, texts, new_doc, fs,
                   main_vars>>

\* A mutant of SweepStep: a page is dropped only when the page before it was
\* kept, so the decision depends on an earlier decision.
SweepStep_Chained ==
    /\ pc = "sweep"
    /\ i < Len(texts)
    /\ IF i = Len(texts) - 1
       THEN /\ keep_indices' = Append(keep_indices, i)
            /\ UNCHANGED stdout
       ELSE IF is_redundant(texts[i + 1], texts[i + 2], threshold)
               /\ (i = 0 \/ (i - 1) \in Range(keep_indices))
            THEN /\ stdout' = IF verbose
                              THEN Append(stdout, <<"Removing slide", i + 1, i + 2>>)
                              ELSE stdout
                 /\ UNCHANGED keep_indices
            ELSE /\ keep_indices' = Append(keep_indices, i)
                 /\ UNCHANGED stdout
    /\ i' = i + 1
    /\ UNCHANGED <<pc, threshold, dry_run, verbose, doc, texts, new_doc, fs,
                   main_vars>>

\* Lines 69-84, one iteration of the sweep over page i (texts is 1-based
\* here, so page i is texts[i + 1] and its successor texts[i + 2]).
SweepStep ==
    /\ pc = "sweep"
    /\ i < Len(texts)
    /\ IF i = Len(texts) - 1
       THEN /\ keep_indices' = Append(keep_indices, i)
            /\ UNCHANGED stdout
       ELSE IF is_redundant(texts[i + 1], texts[i + 2], threshold)
            THEN /\ stdout' = IF verbose
                              THEN Append(stdout, <<"Removing slide", i + 1, i + 2>>)
                              ELSE stdout
                 /\ UNCHANGED keep_indices
            ELSE /\ keep_indices' = Append(keep_indices, i)
                 /\ UNCHANGED stdout
    /\ i' = i + 1
    /\ UNCHANGED <<pc, threshold, dry_run, verbose, doc, texts, new_doc, fs,
                   main_vars>>

\* The sweep loop of lines 69-84 has run over every page.
SweepOver == pc = "sweep" /\ i = Len(texts)

\* A mutant of DryRunReport: the dropped indices are reported 0-based.
DryRunReport_ZeroBased ==
    /\ SweepOver
    /\ dry_run
    /\ LET removed == (0..(Len(texts) - 1)) \ Range(keep_indices)
           sorted  == SortedSeq(removed)
       IN  stdout' = Append(stdout,
               <<"Slides to remove", [k \in 1..Len(sorted) |-> sorted[k]]>>)
    /\ pc' = "returned"
    /\ UNCHANGED <<threshold, dry_run, verbose, doc, texts, keep_indices, i,
                   new_doc, fs,
                   main_vars>>

\* Lines 86-90: the dry-run report, then return.
DryRunReport ==
    /\ SweepOver
    /\ dry_run
    /\ LET removed == (0..(Len(texts) - 1)) \ Range(keep_indices)
           sorted  == SortedSeq(removed)
       IN  stdout' = Append(stdout,
               <<"Slides to remove", [k \in 1..Len(sorted) |-> sorted[k] + 1]>>)
    /\ pc' = "returned"
    /\ UNCHANGED <<threshold, dry_run, verbose, doc, texts, keep_indices, i,
                   new_doc, fs,
                   main_vars>>

\* Line 93: new_doc = fitz.open(), an empty document; the loop of line 94
\* starts at the first element of keep_indices.
NewDoc ==
    /\ SweepOver
    /\ ~dry_run
    /\ new_doc' = [state |-> "open", pages |-> << >>]
    /\ i' = 0
    /\ pc' = "assemble"
    /\ UNCHANGED <<threshold, dry_run, verbose, doc, texts, keep_indices,
                   fs, stdout,
                   main_vars>>

\* The pages insert_pdf(doc, from_page, to_page) appends, in order.
PageRange(from_page, to_page) ==
    [k \in 1..(to_page - from_page + 1) |-> from_page + k - 1]

\* A mutant of InsertPage: the page range copied is one page too long.
InsertPage_RangeTooLong ==
    /\ pc = "assemble"
    /\ i < Len(keep_indices)
    /\ LET page == keep_indices[i + 1]
           last == IF page + 1 < doc.npages THEN page + 1 ELSE page
       IN  new_doc' = [new_doc EXCEPT !.pages = @ \o PageRange(page, last)]
    /\ i' = i + 1
    /\ UNCHANGED <<pc, threshold, dry_run, verbose, doc, texts, keep_indices,
                   fs, stdout,
                   main_vars>>

\* Lines 94-95, one iteration: insert_pdf(doc, from_page=i, to_page=i)
\* appends the pages from_page..to_page of doc to new_doc.  In the model i
\* is the position in keep_indices and page the loop variable of line 94.
InsertPage ==
    /\ pc = "assemble"
    /\ i < Len(keep_indices)
    /\ LET page == keep_indices[i + 1]
       IN  new_doc' = [new_doc EXCEPT !.pages = @ \o PageRange(page, page)]
    /\ i' = i + 1
    /\ UNCHANGED <<pc, threshold, dry_run, verbose, doc, texts, keep_indices,
                   fs, stdout,
                   main_vars>>

\* Line 95: insert_pdf raises; the exception leaves clean_pdf.
InsertFails ==
    /\ pc = "assemble"
    /\ i < Len(keep_indices)
    /\ pc' = "raised"
    /\ UNCHANGED <<threshold, dry_run, verbose, doc, texts, keep_indices, i,
                   new_doc, fs, stdout,
                   main_vars>>

\* Line 98: new_doc.save(output_path) writes the assembled document.
Save ==
    /\ pc = "assemble"
    /\ i = Len(keep_indices)
    /\ fs' = Append(fs, new_doc.pages)
    /\ pc' = "saved"
    /\ UNCHANGED <<threshold, dry_run, verbose, doc, texts, keep_indices, i,
                   new_doc, stdout,
                   main_vars>>

\* Line 98: save raises (permission denied, disk full, or a document with
\* no pages); the exception leaves clean_pdf.
SaveFails ==
    /\ pc = "assemble"
    /\ i = Len(keep_indices)
    /\ pc' = "raised"
    /\ UNCHANGED <<threshold, dry_run, verbose, doc, texts, keep_indices, i,
                   new_doc, fs, stdout,
                   main_vars>>

\* Lines 99-103: both documents are closed and the two summary lines printed.
CloseAndReport ==
    /\ pc = "saved"
    /\ new_doc' = [new_doc EXCEPT !.state = "closed"]
    /\ doc' = [doc EXCEPT !.state = "closed"]
    /\ stdout' = stdout \o << <<"Saved cleaned PDF", output_path>>,
                              <<"Slides kept", Len(keep_indices), Len(texts)>> >>
    /\ pc' = "returned"
    /\ UNCHANGED <<threshold, dry_run, verbose, texts, keep_indices, i, fs,
                   main_vars>>

Next ==
    \/ Open
    \/ OpenFails
    \/ ExtractPage
    \/ ExtractFails
    \/ SweepStep
    \/ DryRunReport
    \/ NewDoc
    \/ InsertPage
    \/ InsertFails
    \/ Save
    \/ SaveFails
    \/ CloseAndReport

Spec == Init /\ [][Next]_vars

\* ------------------------------------------------------------------- main

\* The characters an input path is made of: a letter, the extension
\* separator and the directory separator.
PathChars == {"a", ".", "/"}

\* The input paths tried: every path within the bound, and a deck with the
\* extension .pdf and one with .PDF.
Paths ==
    SeqsUpTo(PathChars, MaxPathLen)
        \cup {<<"a", ".", "p", "d", "f">>, <<"a", ".", "P", "D", "F">>}

\* The values of --out: absent (None), the empty string, a path.
OutArgs ==
    {[given |-> FALSE, value |-> << >>],
     [given |-> TRUE, value |-> << >>],
     [given |-> TRUE, value |-> <<"o">>]}

\* p.rfind(c), 1-based; 0 when c does not occur.
RFind(p, c) ==
    LET hits == {k \in 1..Len(p) : p[k] = c}
    IN  IF hits = {} THEN 0 ELSE CHOOSE k \in hits : \A h \in hits : h <= k

\* os.path.splitext(p) as [base, ext]: the extension starts at the last dot
\* of the last path component, unless only dots precede it there.
splitext(p) ==
    LET sepIndex == RFind(p, "/")
        dotIndex == RFind(p, ".")
    IN  IF dotIndex > sepIndex
           /\ \E k \in (sepIndex + 1)..(dotIndex - 1) : p[k] # "."
        THEN [base |-> SubSeq(p, 1, dotIndex - 1),
              ext  |-> SubSeq(p, dotIndex, Len(p))]
        ELSE [base |-> p, ext |-> << >>]

Cleaned == <<"_", "c", "l", "e", "a", "n", "e", "d">>

DotPdf == <<".", "p", "d", "f">>

\* Lines 145-148: the output path main hands to clean_pdf.
ChosenOutput(a) ==
    IF a.out.given /\ a.out.value # << >>
    THEN a.out.value
    ELSE splitext(a.input).base \o Cleaned \o DotPdf

\* The state after parser.parse_args() of line 137; threshold, dry_run and
\* verbose hold the argparse defaults.
InitMain ==
    /\ main_pc = "parsed"
    /\ args \in [input : Paths, out : OutArgs]
    /\ output_path = << >>
    /\ stderr = << >>
    /\ pc = "not called"
    /\ threshold = <<9, 10>>
    /\ dry_run = FALSE
    /\ verbose = FALSE
    /\ doc = [state |-> "none", npages |-> 0]
    /\ texts = << >>
    /\ keep_indices = << >>
    /\ i = 0
    /\ new_doc = [state |-> "none", pages |-> << >>]
    /\ fs = << >>
    /\ stdout = << >>

\* Lines 140-142: os.path.exists(args.input) is false; exit with status 1.
MainNotFound ==
    /\ main_pc = "parsed"
    /\ main_pc' = "exit 1"
    /\ stderr' = Append(stderr, <<"File not found", args.input>>)
    /\ UNCHANGED <<args, output_path, clean_vars>>

\* Lines 140-157: the input exists (the empty path never does); the output
\* path is chosen and clean_pdf is entered with it.
MainCleans ==
    /\ main_pc = "parsed"
    /\ args.input # << >>
    /\ main_pc' = "cleaning"
    /\ output_path' = ChosenOutput(args)
    /\ pc' = "open"
    /\ UNCHANGED <<args, stderr, threshold, dry_run, verbose, doc, texts,
                   keep_indices, i, new_doc, fs, stdout>>

NextMain ==
    \/ MainNotFound
    \/ MainCleans

SpecMain == InitMain /\ [][NextMain]_vars

\* ------------------------------------------------------------- properties

NPages == Len(texts)

\* The sweep is running or just over and has judged page j (0-based).
\* Nothing assigns texts or keep_indices after the sweep, so the decisions
\* are looked at in the states of the sweep only.
Decided(j) == pc = "sweep" /\ j < i

Kept(j) == j \in Range(keep_indices)

StrictlyAscending(s) == \A k \in 1..(Len(s) - 1) : s[k] < s[k + 1]

InUnitInterval(t) == t[1] >= 0 /\ t[1] <= t[2]

\* The distinct words of each page text, tabulated once.
WordTable == [text \in PageTexts |-> Range(split(text))]

\* The distinct words of a page text.
WordsOf(text) == WordTable[text]

\* The fraction of the distinct words of prev that occur in curr is at
\* least t; the fraction of a text without words is 0.0.
OverlapAtLeast(prev, curr, t) ==
    LET n == Cardinality(WordsOf(prev))
        m == Cardinality({w \in WordsOf(prev) : w \in WordsOf(curr)})
    IN  IF n = 0 THEN t[1] <= 0 ELSE m * t[2] >= t[1] * n

\* C1: once the sweep has judged the last page of a non-empty document, the
\* last index N-1 is in keep_indices, whatever the threshold.
C1_LastPageKept ==
    (NPages >= 1 /\ Decided(NPages - 1)) => Kept(NPages - 1)

\* The sweep of a three-page deck under a negative threshold dropped both
\* other pages and kept the last one.
C1_Witness ==
    /\ SweepOver
    /\ NPages = 3
    /\ threshold[1] < 0
    /\ keep_indices = <<2>>

\* C2: a judged page j < N-1 is dropped exactly when its successor is
\* strictly longer in characters and the fraction of its distinct words found
\* in the successor is at least the threshold; nothing else enters.
C2_DropIff ==
    \A j \in 0..(NPages - 2) :
        Decided(j) =>
            (~Kept(j) <=>
                /\ Len(texts[j + 2]) > Len(texts[j + 1])
                /\ OverlapAtLeast(texts[j + 1], texts[j + 2], threshold))

\* Page 0 was dropped against page 1 although page 1 was itself dropped, the
\* latter at an overlap of exactly one half under the threshold one half.
C2_Witness ==
    /\ SweepOver
    /\ NPages = 3
    /\ threshold = <<1, 2>>
    /\ keep_indices = <<2>>
    /\ text_overlap_ratio(texts[2], texts[3]) = <<1, 2>>

\* The pages the classifier marks redundant at threshold t.
DroppedAt(t) ==
    {j \in 0..(NPages - 2) : is_redundant(texts[j + 1], texts[j + 2], t)}

\* The pages the sweep dropped.
DroppedPages == (0..(NPages - 1)) \ Range(keep_indices)

\* C3: when the sweep is over, the pages dropped at any threshold at or above
\* the one used are among those dropped, and those dropped are among the
\* pages dropped at any threshold at or below it.
C3_Monotonic ==
    SweepOver =>
        LET dropped == DroppedPages
        IN  \A t \in Thresholds :
                LET at_t == DroppedAt(t)
                IN  /\ RatGeq(t, threshold) => at_t \subseteq dropped
                    /\ RatGeq(threshold, t) => dropped \subseteq at_t

\* A sweep that dropped pages of which a higher threshold drops fewer.
C3_Witness ==
    /\ SweepOver
    /\ DroppedPages # {}
    /\ \E t \in Thresholds :
        /\ RatGeq(t, threshold)
        /\ DroppedAt(t) # DroppedPages
        /\ DroppedAt(t) # {}

\* The sweep, which applies is_redundant to every page and its successor,
\* dropped no page without words.
EmptyPagesKept ==
    \A j \in 0..(NPages - 2) :
        (Decided(j) /\ WordsOf(texts[j + 1]) = {}) => Kept(j)

\* C4 as claimed: under every threshold in [0,1] a page without words is
\* never redundant against its successor, so never dropped.
C4_Original == InUnitInterval(threshold) => EmptyPagesKept

\* C4 amended: under every threshold in (0,1] a page without words is
\* never redundant against its successor, so never dropped.
C4_EmptyPageKept ==
    (InUnitInterval(threshold) /\ threshold[1] > 0) => EmptyPagesKept

\* A page without words followed by a page with words was judged under a
\* threshold in (0,1] and kept.
C4_Witness ==
    /\ SweepOver
    /\ InUnitInterval(threshold) /\ threshold[1] > 0
    /\ NPages >= 2
    /\ texts[1] = << >>
    /\ texts[2] # << >>
    /\ Kept(0)

\* C5 as claimed: at threshold 0.0 every judged non-last page whose
\* successor has at least one word is dropped.
C5_Original ==
    threshold = <<0, 1>> =>
        \A j \in 0..(NPages - 2) :
            (Decided(j) /\ WordsOf(texts[j + 2]) # {}) => ~Kept(j)

\* C5 amended: at threshold 0.0 every judged non-last page whose successor
\* is strictly longer in characters is dropped.
C5_ZeroThreshold ==
    threshold = <<0, 1>> =>
        \A j \in 0..(NPages - 2) :
            (Decided(j) /\ Len(texts[j + 2]) > Len(texts[j + 1])) => ~Kept(j)

\* At threshold 0.0 a page sharing no word with its longer successor was
\* dropped.
C5_Witness ==
    /\ SweepOver
    /\ threshold = <<0, 1>>
    /\ NPages >= 2
    /\ texts[1] # << >>
    /\ Len(texts[2]) > Len(texts[1])
    /\ text_overlap_ratio(texts[1], texts[2])[1] = 0
    /\ ~Kept(0)

\* C6: whatever the threshold, no text of the deck is redundant against a
\* text of the deck that is not strictly longer, and the sweep kept every
\* page whose successor is not strictly longer.
C6_LengthGuard ==
    /\ SweepOver =>
        \A k, m \in 1..NPages :
            Len(texts[m]) <= Len(texts[k])
                => ~is_redundant(texts[k], texts[m], threshold)
    /\ \A j \in 0..(NPages - 2) :
        (Decided(j) /\ Len(texts[j + 2]) <= Len(texts[j + 1])) => Kept(j)

\* Under a negative threshold a page whose successor holds the same words
\* in another order, at the same length, was kept.
C6_Witness ==
    /\ SweepOver
    /\ threshold[1] < 0
    /\ NPages >= 2
    /\ texts[1] # texts[2]
    /\ Len(texts[1]) = Len(texts[2])
    /\ WordsOf(texts[1]) # {}
    /\ WordsOf(texts[1]) \subseteq WordsOf(texts[2])
    /\ Kept(0)

\* C7: when a run that is not a dry run has returned, one document was
\* saved; its pages are those of keep_indices, each once, strictly
\* ascending, all pages of the input; and the count printed last is the
\* number of pages saved.
C7_OutputIsKeepList ==
    (pc = "returned" /\ ~dry_run) =>
        /\ Len(fs) = 1
        /\ Len(fs[1]) = Len(keep_indices)
        /\ Range(fs[1]) = Range(keep_indices)
        /\ StrictlyAscending(fs[1])
        /\ Range(fs[1]) \subseteq 0..(NPages - 1)
        /\ stdout[Len(stdout)] = <<"Slides kept", Len(fs[1]), NPages>>

\* A run that is not a dry run returned after saving two of three pages,
\* the first of them not page 0.
C7_Witness ==
    /\ pc = "returned"
    /\ ~dry_run
    /\ NPages = 3
    /\ Len(fs) = 1
    /\ fs[1] = <<1, 2>>

\* The keep list of the sweep for the texts ts and the threshold t: every
\* index that is the last one or not redundant against its successor.
KeepListOf(ts, t) ==
    SortedSeq({j \in 0..(Len(ts) - 1) :
        j = Len(ts) - 1 \/ ~is_redundant(ts[j + 1], ts[j + 2], t)})

\* C8: a dry run never opens an output document and never saves one, and
\* when it has returned the list printed is, strictly ascending, the
\* 1-based indices of the pages outside the keep list of the texts and
\* threshold, which does not depend on dry_run.
C8_DryRun ==
    dry_run =>
        /\ fs = << >>
        /\ new_doc.state = "none"
        /\ pc = "returned" =>
            LET line == stdout[Len(stdout)]
            IN  /\ line[1] = "Slides to remove"
                /\ StrictlyAscending(line[2])
                /\ keep_indices = KeepListOf(texts, threshold)
                /\ Range(line[2]) =
                       {j + 1 : j \in (0..(NPages - 1)) \ Range(keep_indices)}

\* A dry run over three pages returned after reporting pages 1 and 2.
C8_Witness ==
    /\ dry_run
    /\ pc = "returned"
    /\ NPages = 3
    /\ stdout[Len(stdout)] = <<"Slides to remove", <<1, 2>> >>
    /\ fs = << >>

\* C9 as claimed: without --out, the output path handed to clean_pdf is the
\* stem of the input path, then _cleaned, then the input path's extension.
C9_DefaultOutput ==
    (main_pc = "cleaning" /\ ~args.out.given) =>
        output_path = splitext(args.input).base \o Cleaned
                          \o splitext(args.input).ext

\* C10 as claimed: a run of clean_pdf that opened the input document has
\* closed it when it has returned or raised.
C10_DocClosedOnExit ==
    (pc \in {"returned", "raised"} /\ doc.state # "none")
        => doc.state = "closed"

=============================================================================
